---- MODULE Spec2Model ----
(***************************************************************************)
(* Print job lifecycle of backend/app.py: POST /api/print (submit_print),  *)
(* the Protocol Backend call (_run_ipp_print), the Simulated Backend's     *)
(* background thread (_async_mock_complete) and GET /api/jobs/<id>         *)
(* (job_status), over one shared job table.                                *)
(*                                                                         *)
(* Text values (Python str) are sequences of symbols; a symbol is a single *)
(* character or a fixed piece of a message.  An optional value (a nullable *)
(* column, a Python value that may be None) is a sequence of length 0      *)
(* (None) or 1 (the value).                                                *)
(***************************************************************************)
EXTENDS Integers, Sequences, FiniteSets, TLC

\* ---------------------------------------------------------------- bounds
MaxRequests == 2
MaxClock == 1
\* completion signals delivered beyond the one thread submit_print starts
MaxSignals == 1
\* tokens in one output of the external client
MaxTokens == 2

\* ---------------------------------------------------------------- values
None == << >>
Some(x) == << x >>

Users == {1, 2}
Requests == 1 .. MaxRequests
\* job ids a status request may name: every id that can exist, and one more
JobIds == 1 .. (MaxRequests + 1)

EmptyStr == << >>
Whitespace == {" "}
Digits == {"1"}

\* Python truthiness of an optional str: None and "" are falsy
Truthy(opt) == opt /= None /\ opt[1] /= EmptyStr

\* the Authorization header of a request: absent/not "Bearer ...",
\* a bearer token that does not decode, or a valid token of a user
AuthHeaders == {[kind |-> "missing", sub |-> 0], [kind |-> "invalid", sub |-> 0]}
                 \cup {[kind |-> "valid", sub |-> u] : u \in Users}

\* request.files: no "file" field (None) or a file with its raw filename
RawFilenames == {EmptyStr, <<"a", " ", "b">>}
Uploads == {None} \cup {Some(n) : n \in RawFilenames}

\* werkzeug's secure_filename on the raw filenames above: whitespace becomes "_"
secure_filename(raw) ==
    [i \in 1 .. Len(raw) |-> IF raw[i] \in Whitespace THEN "_" ELSE raw[i]]

\* ---------------------------------------------------------------- state
VARIABLES
    ENABLE_IPP,     \* configuration, fixed when the process starts
    PRINTER_URI,
    PRINTER_NAME,
    now,            \* the latest reading of the clock (time.time(), datetime.utcnow())
    jobs,           \* table print_jobs: id -> row
    req,            \* the POST /api/print requests in flight: locals and position
    threads,        \* the background threads started, in order of start
    lpCalls,        \* per request, the external client invocations it made, each
                    \* with what the client did
    hist,           \* per job, the statuses stored so far (history)
    view            \* the last response of GET /api/jobs/<id>

vars == <<ENABLE_IPP, PRINTER_URI, PRINTER_NAME, now, jobs, req, threads,
          lpCalls, hist, view>>

config == <<ENABLE_IPP, PRINTER_URI, PRINTER_NAME>>

\* ------------------------------------------------- the external client
\* what subprocess.check_output can do: return the output (exit 0), raise
\* CalledProcessError carrying the output (non-zero exit), or raise another
\* exception, whose message is str(e): the client cannot be spawned
\* (FileNotFoundError), the timeout expires (TimeoutExpired), or any other
\* Exception, such as MemoryError, whose str() is empty
SampleOutputs == {EmptyStr, <<"a", " ", "-", "1">>}
Faults == {[exc |-> "FileNotFoundError", text |-> <<"No such file or directory: 'lp'">>],
           [exc |-> "TimeoutExpired", text |-> <<"timed out after 60 seconds">>],
           [exc |-> "MemoryError", text |-> EmptyStr]}
ClientOutcomes ==
    {[kind |-> "ok", exc |-> "", text |-> o] : o \in SampleOutputs}
      \cup {[kind |-> "exit", exc |-> "CalledProcessError", text |-> o] : o \in SampleOutputs}
      \cup {[kind |-> "fault", exc |-> f.exc, text |-> f.text] : f \in Faults}

LpFailed == <<"lp failed: ">>
NoPrinterMsg == <<"No PRINTER_URI or PRINTER_NAME configured">>

\* length of the leading run of non-whitespace symbols of s
TokenLen(s) ==
    IF \E i \in 1 .. Len(s) : s[i] \in Whitespace
    THEN (CHOOSE i \in 1 .. Len(s) :
             s[i] \in Whitespace /\ \A j \in 1 .. (i - 1) : s[j] \notin Whitespace) - 1
    ELSE Len(s)

\* str.split(): the maximal runs of non-whitespace, in order
RECURSIVE Split(_)
Split(s) ==
    IF s = << >> THEN << >>
    ELSE IF Head(s) \in Whitespace THEN Split(Tail(s))
    ELSE <<SubSeq(s, 1, TokenLen(s))>> \o Split(SubSeq(s, TokenLen(s) + 1, Len(s)))

\* str.strip(): leading and trailing whitespace removed
RECURSIVE Strip(_)
Strip(s) ==
    IF s = << >> THEN s
    ELSE IF Head(s) \in Whitespace THEN Strip(Tail(s))
    ELSE IF s[Len(s)] \in Whitespace THEN Strip(SubSeq(s, 1, Len(s) - 1))
    ELSE s

\* part.split("-")[-1]: what follows the last "-" (all of part if there is none)
AfterLastDash(part) ==
    LET dashes == {i \in 1 .. Len(part) : part[i] = "-"}
    IN  IF dashes = {} THEN part
        ELSE LET last == CHOOSE i \in dashes : \A j \in dashes : j <= i
             IN  SubSeq(part, last + 1, Len(part))

\* str.isdigit(): non-empty and all digits
IsDigit(s) == s /= << >> /\ \A i \in 1 .. Len(s) : s[i] \in Digits

\* the test of line 143
Qualifies(part) ==
    (\E i \in 1 .. Len(part) : part[i] = "-") /\ IsDigit(AfterLastDash(part))

\* the loop of lines 141-145 without its break: the last qualifying token
FindJobIdLast(parts) ==
    LET hits == {i \in 1 .. Len(parts) : Qualifies(parts[i])}
    IN  IF hits = {} THEN None
        ELSE Some(Strip(parts[CHOOSE i \in hits : \A j \in hits : j <= i]))

\* the loop of lines 141-145: the first qualifying token, then break
FindJobId(parts) ==
    LET hits == {i \in 1 .. Len(parts) : Qualifies(parts[i])}
    IN  IF hits = {} THEN None
        ELSE Some(Strip(parts[CHOOSE i \in hits : \A j \in hits : i <= j]))

\* the command line with a fall-back to the client's default printer
LpCommandDefaultPrinter(local_path) ==
    IF PRINTER_NAME /= EmptyStr
    THEN Some(<<"lp", "-d", PRINTER_NAME, local_path>>)
    ELSE IF PRINTER_URI /= EmptyStr
    THEN Some(<<"lp", "-o", <<"printer-uri-supported=">> \o PRINTER_URI, local_path>>)
    ELSE Some(<<"lp", local_path>>)

\* the command line built at lines 133-136 (None: no target configured)
LpCommand(local_path) ==
    IF PRINTER_NAME /= EmptyStr
    THEN Some(<<"lp", "-d", PRINTER_NAME, local_path>>)
    ELSE IF PRINTER_URI /= EmptyStr
    THEN Some(<<"lp", "-o", <<"printer-uri-supported=">> \o PRINTER_URI, local_path>>)
    ELSE None

\* the value _run_ipp_print hands back: (job_id, err), with the command run if
\* the client was invoked, and whether an exception left the function instead
Returned(ipp_id, err, cmd) ==
    [ipp_id |-> ipp_id, err |-> err, cmd |-> cmd, raised |-> FALSE]

\* _run_ipp_print without the handler of line 149: only CalledProcessError is caught
run_ipp_print_uncaught(local_path, outcome) ==
    IF ~ENABLE_IPP THEN Returned(None, None, None)
    ELSE IF LpCommand(local_path) = None
    THEN Returned(None, Some(NoPrinterMsg), None)
    ELSE IF outcome.kind = "ok"
    THEN Returned(FindJobId(Split(outcome.text)), None, LpCommand(local_path))
    ELSE IF outcome.kind = "exit"
    THEN Returned(None, Some(LpFailed \o outcome.text), LpCommand(local_path))
    ELSE [ipp_id |-> None, err |-> None, cmd |-> LpCommand(local_path), raised |-> TRUE]

\* _run_ipp_print with the exit status unchecked: the output of a failed
\* client is read like that of a successful one
run_ipp_print_unchecked(local_path, outcome) ==
    IF ~ENABLE_IPP THEN Returned(None, None, None)
    ELSE IF LpCommand(local_path) = None
    THEN Returned(None, Some(NoPrinterMsg), None)
    ELSE IF outcome.kind \in {"ok", "exit"}
    THEN Returned(FindJobId(Split(outcome.text)), None, LpCommand(local_path))
    ELSE Returned(None, Some(outcome.text), LpCommand(local_path))

\* _run_ipp_print
run_ipp_print(local_path, outcome) ==
    IF ~ENABLE_IPP THEN Returned(None, None, None)
    ELSE IF LpCommand(local_path) = None
    THEN Returned(None, Some(NoPrinterMsg), None)
    ELSE IF outcome.kind = "ok"
    THEN Returned(FindJobId(Split(outcome.text)), None, LpCommand(local_path))
    ELSE IF outcome.kind = "exit"
    THEN Returned(None, Some(LpFailed \o outcome.text), LpCommand(local_path))
    ELSE Returned(None, Some(outcome.text), LpCommand(local_path))

\* ------------------------------------------------------------ job table
Columns == {"id", "user_id", "filename", "status", "error", "ipp_job_id",
            "created_at", "updated_at"}

\* PrintJob(user_id, filename, status="queued") as inserted with the column
\* defaults; created_at and updated_at each call datetime.utcnow, in that order
PrintJob(id, user_id, filename, created, updated) ==
    [id |-> id, user_id |-> user_id, filename |-> filename, status |-> "queued",
     error |-> None, ipp_job_id |-> None, created_at |-> created, updated_at |-> updated]

\* the primary key the table assigns to the next inserted row
NextId(store) == Cardinality(DOMAIN store) + 1

\* s.get(PrintJob, job_id): the row, or None
SessionGet(store, id) == IF id \in DOMAIN store THEN Some(store[id]) ELSE None

\* the attributes of obj that differ from the values loaded
Dirty(loaded, obj) == {c \in Columns : obj[c] /= loaded[c]}

\* the UPDATE with updated_at declared without onupdate: it keeps its value
SessionCommitNoOnupdate(store, loaded, obj, t) ==
    IF loaded.id \notin DOMAIN store \/ Dirty(loaded, obj) = {} THEN store
    ELSE [store EXCEPT ![loaded.id] =
            [c \in Columns |-> IF c \in Dirty(loaded, obj) THEN obj[c] ELSE @[c]]]

\* the UPDATE issued without its WHERE clause: every row takes the changes
SessionCommitAllRows(store, loaded, obj, t) ==
    IF loaded.id \notin DOMAIN store \/ Dirty(loaded, obj) = {} THEN store
    ELSE [id \in DOMAIN store |->
            [c \in Columns |->
                IF c \in Dirty(loaded, obj) THEN obj[c]
                ELSE IF c = "updated_at" THEN t
                ELSE store[id][c]]]

\* s.commit() of an object loaded as `loaded` and now `obj`: one UPDATE of the
\* changed columns of that row, with updated_at refreshed (onupdate)
SessionCommit(store, loaded, obj, t) ==
    IF loaded.id \notin DOMAIN store \/ Dirty(loaded, obj) = {} THEN store
    ELSE [store EXCEPT ![loaded.id] =
            [c \in Columns |->
                IF c \in Dirty(loaded, obj) THEN obj[c]
                ELSE IF c = "updated_at" THEN t
                ELSE @[c]]]

\* the status history after the table changed from store to next
Record(h, store, next) ==
    [id \in DOMAIN next |->
        IF id \notin DOMAIN store THEN <<next[id].status>>
        ELSE IF next[id].status /= store[id].status THEN Append(h[id], next[id].status)
        ELSE h[id]]

\* ------------------------------------------------------------ responses
Response(code, body) == [code |-> code, body |-> body]
Unauthorized == Response(401, [error |-> "Unauthorized"])
InvalidToken == Response(401, [error |-> "Invalid token"])
FileRequired == Response(400, [error |-> "file is required"])
EmptyFilename == Response(400, [error |-> "empty filename"])
NotFound == Response(404, [error |-> "not found"])
\* what the framework answers when an exception leaves a handler
ServerError == Response(500, [error |-> "Internal Server Error"])
Accepted(job_id) == Response(200, [job_id |-> job_id])

\* datetime.isoformat()
isoformat(t) == <<"iso", t>>

JobView(job) ==
    Response(200, [id |-> job.id, filename |-> job.filename, status |-> job.status,
                   error |-> job.error, ipp_job_id |-> job.ipp_job_id,
                   created_at |-> isoformat(job.created_at),
                   updated_at |-> isoformat(job.updated_at)])

\* auth_required: the response that rejects the request, or None to go on
auth_required(h) ==
    IF h.kind = "missing" THEN Some(Unauthorized)
    ELSE IF h.kind = "invalid" THEN Some(InvalidToken)
    ELSE None

\* the query without the user_id filter
QueryJobAnyOwner(store, job_id, user_id) ==
    IF job_id \in DOMAIN store THEN Some(store[job_id]) ELSE None

\* the query of line 201
QueryJob(store, job_id, user_id) ==
    IF job_id \in DOMAIN store /\ store[job_id].user_id = user_id
    THEN Some(store[job_id]) ELSE None

\* GET /api/jobs/<job_id> with Authorization header h
job_status(h, job_id) ==
    IF auth_required(h) /= None THEN auth_required(h)[1]
    ELSE IF QueryJob(jobs, job_id, h.sub) = None THEN NotFound
    ELSE JobView(QueryJob(jobs, job_id, h.sub)[1])

\* the readings the clock can give next: it does not run backwards
ClockReadings == now .. MaxClock

\* ----------------------------------------------------------------- Init
\* auth and files are the request's Authorization header and request.files as
\* far as the handler has read them (None: not read)
IdleRequest ==
    [pc |-> "start", auth |-> None, files |-> None, user_id |-> 0, path |-> None,
     job_id |-> 0, ipp_id |-> None, err |-> None, job |-> None, resp |-> None]

Init ==
    /\ ENABLE_IPP \in BOOLEAN
    /\ PRINTER_URI \in {EmptyStr, <<"ipp://printer">>}
    /\ PRINTER_NAME \in {EmptyStr, <<"office">>}
    /\ now = 0
    /\ jobs = << >>
    /\ req = [r \in Requests |-> IdleRequest]
    /\ threads = << >>
    /\ lpCalls = [r \in Requests |-> << >>]
    /\ hist = << >>
    /\ view = None

\* -------------------------------------------------- POST /api/print
\* request slot r is the next to arrive (slots are taken in order)
Arrives(r) == req[r].pc = "start" /\ \A q \in 1 .. (r - 1) : req[q].pc /= "start"

\* lines 166 and 168: a file field is present and its filename is not empty
HasFilename(up) == IF up = None THEN FALSE ELSE up[1] /= EmptyStr

\* lines 77-85: no bearer token, or one that does not decode
AuthReject(r, h) ==
    /\ Arrives(r)
    /\ auth_required(h) /= None
    /\ req' = [req EXCEPT ![r] = [@ EXCEPT !.pc = "done", !.auth = Some(h),
                                           !.resp = auth_required(h)]]
    /\ UNCHANGED <<config, now, jobs, threads, lpCalls, hist, view>>

\* the filename test made after the insert: the job row is committed, then
\* the request is rejected
ValidationRejectAfterInsert(r, h, up) ==
    /\ Arrives(r)
    /\ auth_required(h) = None
    /\ ~HasFilename(up)
    /\ \E created \in ClockReadings : \E updated \in created .. MaxClock :
         /\ now' = updated
         /\ jobs' = jobs @@ (NextId(jobs) :>
                               PrintJob(NextId(jobs), h.sub, EmptyStr, created, updated))
    /\ hist' = Record(hist, jobs, jobs')
    /\ req' = [req EXCEPT ![r] =
                 [@ EXCEPT !.pc = "done", !.auth = Some(h), !.files = Some(up),
                           !.resp = Some(IF up = None THEN FileRequired ELSE EmptyFilename)]]
    /\ UNCHANGED <<config, threads, lpCalls, view>>

\* lines 166-168: no file field, or a file with an empty filename
ValidationReject(r, h, up) ==
    /\ Arrives(r)
    /\ auth_required(h) = None
    /\ ~HasFilename(up)
    /\ req' = [req EXCEPT ![r] =
                 [@ EXCEPT !.pc = "done", !.auth = Some(h), !.files = Some(up),
                           !.resp = Some(IF up = None THEN FileRequired ELSE EmptyFilename)]]
    /\ UNCHANGED <<config, now, jobs, threads, lpCalls, hist, view>>

\* the insert without its commit: the row never reaches the table
SubmitCreateUncommitted(r, h, up) ==
    /\ Arrives(r)
    /\ auth_required(h) = None
    /\ HasFilename(up)
    /\ \E saved \in ClockReadings :
         /\ now' = saved
         /\ req' = [req EXCEPT ![r] =
                      [@ EXCEPT !.pc = "created", !.auth = Some(h), !.files = Some(up),
                                !.user_id = h.sub,
                                !.path = Some(<<saved, secure_filename(up[1])>>),
                                !.job_id = NextId(jobs)]]
    /\ UNCHANGED <<config, jobs, hist, threads, lpCalls, view>>

\* lines 169-177: the file is saved and the job row inserted and committed
SubmitCreate(r, h, up) ==
    /\ Arrives(r)
    /\ auth_required(h) = None
    /\ HasFilename(up)
    /\ \E saved \in ClockReadings : \E created \in saved .. MaxClock :
       \E updated \in created .. MaxClock :
         /\ now' = updated
         /\ jobs' = jobs @@ (NextId(jobs) :>
                               PrintJob(NextId(jobs), h.sub, secure_filename(up[1]),
                                        created, updated))
         /\ req' = [req EXCEPT ![r] =
                      [@ EXCEPT !.pc = "created", !.auth = Some(h), !.files = Some(up),
                                !.user_id = h.sub,
                                !.path = Some(<<saved, secure_filename(up[1])>>),
                                !.job_id = NextId(jobs)]]
    /\ hist' = Record(hist, jobs, jobs')
    /\ UNCHANGED <<config, threads, lpCalls, view>>

\* lines 179-183: the Protocol Backend call, blocking the request; when it
\* returns a new session loads the job
RunIppPrint(r, outcome) ==
    /\ req[r].pc = "created"
    /\ ENABLE_IPP
    /\ LET res == run_ipp_print(req[r].path[1], outcome)
       IN  /\ req' = [req EXCEPT ![r] =
                        IF res.raised
                        THEN [IdleRequest EXCEPT !.pc = "done", !.user_id = req[r].user_id,
                                                 !.job_id = req[r].job_id,
                                                 !.resp = Some(ServerError)]
                        ELSE [@ EXCEPT !.pc = "loaded", !.ipp_id = res.ipp_id,
                                       !.err = res.err,
                                       !.job = SessionGet(jobs, req[r].job_id)]]
           /\ lpCalls' = IF res.cmd = None THEN lpCalls
                         ELSE [lpCalls EXCEPT ![r] =
                                 Append(@, [job_id |-> req[r].job_id, cmd |-> res.cmd[1],
                                            outcome |-> outcome])]
    /\ UNCHANGED <<config, now, jobs, threads, hist, view>>

\* the outcome with the error test written `err is not None`
OutcomeErrNotNone(job, ipp_id, err) ==
    IF err /= None
    THEN [job EXCEPT !.status = "failed", !.error = err]
    ELSE [job EXCEPT !.status = "printing",
                     !.ipp_job_id = IF Truthy(ipp_id) THEN ipp_id ELSE Some(EmptyStr)]

\* the outcome with the identifier never stored
OutcomeIdLost(job, ipp_id, err) ==
    IF Truthy(err)
    THEN [job EXCEPT !.status = "failed", !.error = err]
    ELSE [job EXCEPT !.status = "printing", !.ipp_job_id = Some(EmptyStr)]

\* lines 185-188: the outcome written on the loaded job
Outcome(job, ipp_id, err) ==
    IF Truthy(err)
    THEN [job EXCEPT !.status = "failed", !.error = err]
    ELSE [job EXCEPT !.status = "printing",
                     !.ipp_job_id = IF Truthy(ipp_id) THEN ipp_id ELSE Some(EmptyStr)]

\* the write-back followed by the thread start (line 191's else lost)
StoreOutcomeThenThread(r) ==
    /\ req[r].pc = "loaded"
    /\ \E t \in ClockReadings :
         /\ now' = t
         /\ jobs' = IF req[r].job = None THEN jobs
                    ELSE SessionCommit(jobs, req[r].job[1],
                                       Outcome(req[r].job[1], req[r].ipp_id, req[r].err), t)
    /\ hist' = Record(hist, jobs, jobs')
    /\ threads' = Append(threads, [job_id |-> req[r].job_id, pc |-> "sleep", job |-> None])
    /\ req' = [req EXCEPT ![r] =
                 [IdleRequest EXCEPT !.pc = "done", !.user_id = req[r].user_id,
                                     !.job_id = req[r].job_id,
                                     !.resp = Some(Accepted(req[r].job_id))]]
    /\ UNCHANGED <<config, lpCalls, view>>

\* the write-back that commits the status alone, the other fields being left
\* for a later commit
StoreOutcomeStatusOnly(r) ==
    /\ req[r].pc = "loaded"
    /\ \E t \in ClockReadings :
         /\ now' = t
         /\ jobs' = IF req[r].job = None THEN jobs
                    ELSE SessionCommit(jobs, req[r].job[1],
                                       [req[r].job[1] EXCEPT !.status =
                                           Outcome(req[r].job[1], req[r].ipp_id,
                                                   req[r].err).status], t)
    /\ hist' = Record(hist, jobs, jobs')
    /\ req' = [req EXCEPT ![r] =
                 [IdleRequest EXCEPT !.pc = "done", !.user_id = req[r].user_id,
                                     !.job_id = req[r].job_id,
                                     !.resp = Some(Accepted(req[r].job_id))]]
    /\ UNCHANGED <<config, threads, lpCalls, view>>

\* lines 184-190 and 194: the outcome is committed and the job id returned
StoreOutcome(r) ==
    /\ req[r].pc = "loaded"
    /\ \E t \in ClockReadings :
         /\ now' = t
         /\ jobs' = IF req[r].job = None THEN jobs
                    ELSE SessionCommit(jobs, req[r].job[1],
                                       Outcome(req[r].job[1], req[r].ipp_id, req[r].err), t)
    /\ hist' = Record(hist, jobs, jobs')
    /\ req' = [req EXCEPT ![r] =
                 [IdleRequest EXCEPT !.pc = "done", !.user_id = req[r].user_id,
                                     !.job_id = req[r].job_id,
                                     !.resp = Some(Accepted(req[r].job_id))]]
    /\ UNCHANGED <<config, threads, lpCalls, view>>

\* the thread start taken whatever ENABLE_IPP is
StartThreadAnyBackend(r) ==
    /\ req[r].pc = "created"
    /\ threads' = Append(threads, [job_id |-> req[r].job_id, pc |-> "sleep", job |-> None])
    /\ req' = [req EXCEPT ![r] =
                 [IdleRequest EXCEPT !.pc = "done", !.user_id = req[r].user_id,
                                     !.job_id = req[r].job_id,
                                     !.resp = Some(Accepted(req[r].job_id))]]
    /\ UNCHANGED <<config, now, jobs, lpCalls, hist, view>>

\* lines 191-194: the background thread is started and the job id returned
StartThread(r) ==
    /\ req[r].pc = "created"
    /\ ~ENABLE_IPP
    /\ threads' = Append(threads, [job_id |-> req[r].job_id, pc |-> "sleep", job |-> None])
    /\ req' = [req EXCEPT ![r] =
                 [IdleRequest EXCEPT !.pc = "done", !.user_id = req[r].user_id,
                                     !.job_id = req[r].job_id,
                                     !.resp = Some(Accepted(req[r].job_id))]]
    /\ UNCHANGED <<config, now, jobs, lpCalls, hist, view>>

\* ------------------------------------------------ _async_mock_complete
\* lines 153-156: the sleep is over and a new session loads the job
MockLoad(t) ==
    /\ t \in 1 .. Len(threads)
    /\ threads[t].pc = "sleep"
    /\ threads' = [threads EXCEPT ![t] =
                     [@ EXCEPT !.pc = "loaded", !.job = SessionGet(jobs, threads[t].job_id)]]
    /\ UNCHANGED <<config, now, jobs, req, lpCalls, hist, view>>

\* the thread without its commit: the session is closed with the change pending
MockCommitLost(t) ==
    /\ t \in 1 .. Len(threads)
    /\ threads[t].pc = "loaded"
    /\ threads' = [threads EXCEPT ![t] = [@ EXCEPT !.pc = "finished", !.job = None]]
    /\ UNCHANGED <<config, now, jobs, hist, req, lpCalls, view>>

\* lines 157-161: status set to completed and committed
MockCommit(t) ==
    /\ t \in 1 .. Len(threads)
    /\ threads[t].pc = "loaded"
    /\ \E at \in ClockReadings :
         /\ now' = at
         /\ jobs' = IF threads[t].job = None THEN jobs
                    ELSE SessionCommit(jobs, threads[t].job[1],
                                       [threads[t].job[1] EXCEPT !.status = "completed"], at)
    /\ hist' = Record(hist, jobs, jobs')
    /\ threads' = [threads EXCEPT ![t] = [@ EXCEPT !.pc = "finished", !.job = None]]
    /\ UNCHANGED <<config, req, lpCalls, view>>

\* ------------------------------------------------ GET /api/jobs/<id>
GetStatus(h, job_id) ==
    /\ view' = Some([caller |-> h, job_id |-> job_id, resp |-> job_status(h, job_id)])
    /\ UNCHANGED <<config, now, jobs, req, threads, lpCalls, hist>>

Next ==
    \/ \E r \in Requests, h \in AuthHeaders : AuthReject(r, h)
    \/ \E r \in Requests, h \in AuthHeaders, up \in Uploads : ValidationReject(r, h, up)
    \/ \E r \in Requests, h \in AuthHeaders, up \in Uploads : SubmitCreate(r, h, up)
    \/ \E r \in Requests, outcome \in ClientOutcomes : RunIppPrint(r, outcome)
    \/ \E r \in Requests : StoreOutcome(r)
    \/ \E r \in Requests : StartThread(r)
    \/ \E t \in Requests : MockLoad(t)
    \/ \E t \in Requests : MockCommit(t)
    \/ \E h \in AuthHeaders, job_id \in JobIds : GetStatus(h, job_id)

Spec == Init /\ [][Next]_vars

\* the process started with the Simulated Backend (ENABLE_IPP false): the
\* steps it can take, with the request threads and the background threads
\* scheduled fairly
SimulatedInit == Init /\ ~ENABLE_IPP

SimulatedNext ==
    \/ \E r \in Requests, h \in AuthHeaders : AuthReject(r, h)
    \/ \E r \in Requests, h \in AuthHeaders, up \in Uploads : ValidationReject(r, h, up)
    \/ \E r \in Requests, h \in AuthHeaders, up \in Uploads : SubmitCreate(r, h, up)
    \/ \E r \in Requests : StartThread(r)
    \/ \E t \in Requests : MockLoad(t)
    \/ \E t \in Requests : MockCommit(t)
    \/ \E h \in AuthHeaders, job_id \in JobIds : GetStatus(h, job_id)

SimulatedFairSpec ==
    /\ SimulatedInit
    /\ [][SimulatedNext]_vars
    /\ \A r \in Requests : WF_vars(StartThread(r))
    /\ \A t \in Requests : WF_vars(MockLoad(t))
    /\ \A t \in Requests : WF_vars(MockCommit(t))

\* ---------------------------------------- duplicate completion signals
\* the threads that signal a job another thread was already started for
Duplicates ==
    {t \in 1 .. Len(threads) :
        \E u \in 1 .. (t - 1) : threads[u].job_id = threads[t].job_id}

\* _async_mock_complete(job_id) called once more for a job that already has
\* its completion thread
DuplicateSignal(j) ==
    /\ j \in DOMAIN jobs
    /\ \E u \in 1 .. Len(threads) : threads[u].job_id = j
    /\ Cardinality(Duplicates) < MaxSignals
    /\ threads' = Append(threads, [job_id |-> j, pc |-> "sleep", job |-> None])
    /\ UNCHANGED <<config, now, jobs, req, lpCalls, hist, view>>

SignalThreads == 1 .. (MaxRequests + MaxSignals)

\* the Simulated Backend with completion signals that may be duplicated
DuplicateNext ==
    \/ \E r \in Requests, h \in AuthHeaders, up \in Uploads : SubmitCreate(r, h, up)
    \/ \E r \in Requests : StartThread(r)
    \/ \E j \in JobIds : DuplicateSignal(j)
    \/ \E t \in SignalThreads : MockLoad(t)
    \/ \E t \in SignalThreads : MockCommit(t)

DuplicateSpec == SimulatedInit /\ [][DuplicateNext]_vars

\* ------------------------------------------- outputs of the client
\* words the client may print: with and without a "-", with and without a
\* numeric suffix
Tokens == {<<"a">>, <<"-", "1">>, <<"a", "-", "1">>, <<"1", "-">>}

\* the words of a line, separated by blanks
RECURSIVE Join(_)
Join(toks) ==
    IF toks = << >> THEN EmptyStr
    ELSE IF Len(toks) = 1 THEN toks[1]
    ELSE toks[1] \o <<" ">> \o Join(Tail(toks))

\* what a client that exits with status 0 may have printed
ParseOutcomes ==
    {[kind |-> "ok", exc |-> "", text |-> Join(toks)] :
        toks \in UNION {[1 .. n -> Tokens] : n \in 0 .. MaxTokens}}

\* the Protocol Backend with a printer configured and a client that succeeds
ParseInit == Init /\ ENABLE_IPP /\ PRINTER_NAME /= EmptyStr /\ PRINTER_URI = EmptyStr

ParseNext ==
    \/ \E r \in Requests, h \in AuthHeaders, up \in Uploads : SubmitCreate(r, h, up)
    \/ \E r \in Requests, outcome \in ParseOutcomes : RunIppPrint(r, outcome)
    \/ \E r \in Requests : StoreOutcome(r)

ParseSpec == ParseInit /\ [][ParseNext]_vars

\* =============================================================== claims
\* request r got past validation and created a job
Owned(r) == req[r].job_id /= 0
\* the Authorization header carrying a valid token of user u
TokenOf(u) == [kind |-> "valid", sub |-> u]
\* text `part` occurs in text `whole`
Contains(whole, part) ==
    \E i \in 1 .. (Len(whole) - Len(part) + 1) :
        SubSeq(whole, i, i + Len(part) - 1) = part
\* the external client invocations made for job j
CallsFor(j) ==
    {c \in UNION {{lpCalls[r][i] : i \in 1 .. Len(lpCalls[r])} : r \in Requests} :
        c.job_id = j}

\* C1: a job's status leaves queued at most once: its stored statuses are
\* queued, then at most one of printing/failed (Protocol Backend) or
\* completed (Simulated Backend).
C1_LeavesQueuedOnce ==
    \A j \in DOMAIN jobs :
        /\ hist[j][1] = "queued"
        /\ Len(hist[j]) <= 2
        /\ jobs[j].status = hist[j][Len(hist[j])]
        /\ Len(hist[j]) = 2 =>
              IF ENABLE_IPP THEN hist[j][2] \in {"printing", "failed"}
              ELSE hist[j][2] = "completed"

C1_Witness ==
    /\ Cardinality(DOMAIN jobs) = 2
    /\ \E j, k \in DOMAIN jobs :
          hist[j] = <<"queued", "failed">> /\ hist[k] = <<"queued", "printing">>
    /\ view /= None /\ view[1].resp.code = 200

\* C2: completed and failed are terminal: no step changes the status of a job
\* whose stored status is completed or failed.
C2_TerminalStatuses ==
    [][\A j \in DOMAIN jobs :
          jobs[j].status \in {"completed", "failed"} => jobs'[j].status = jobs[j].status]_vars

\* a job failed, and after that another job was created and dispatched
C2_Witness ==
    \E j, k \in DOMAIN jobs :
        /\ jobs[j].status = "failed"
        /\ jobs[k].created_at > jobs[j].updated_at
        /\ Len(hist[k]) = 2

\* C3: a job's error is non-empty exactly when its status is failed.
C3_ErrorIffFailed ==
    \A j \in DOMAIN jobs : Truthy(jobs[j].error) <=> jobs[j].status = "failed"

C3_Witness ==
    \E j, k \in DOMAIN jobs :
        /\ jobs[j].status = "failed" /\ Truthy(jobs[j].error)
        /\ jobs[k].status = "printing" /\ jobs[k].error = None

\* C4: a status request by a user who does not own the job is answered
\* NotFound with none of the job's fields, exactly as for an id never created.
C4_OtherUsersJobNotFound ==
    /\ view /= None =>
          \/ view[1].caller.kind /= "valid"
          \/ view[1].job_id \in DOMAIN jobs
               /\ jobs[view[1].job_id].user_id = view[1].caller.sub
          \/ view[1].resp = NotFound
    /\ \A u \in Users, j \in DOMAIN jobs :
          jobs[j].user_id /= u =>
              job_status(TokenOf(u), j) = job_status(TokenOf(u), NextId(jobs))

C4_Witness ==
    /\ view /= None
    /\ view[1].caller.kind = "valid"
    /\ view[1].job_id \in DOMAIN jobs
    /\ jobs[view[1].job_id].user_id /= view[1].caller.sub
    /\ jobs[view[1].job_id].status = "failed"
    /\ view[1].resp = NotFound

\* the failure of the dispatch of job j that its record must show, for the
\* outcomes without a target, with a non-zero exit, a spawn failure or a timeout
DispatchFailed(j) ==
    \/ ENABLE_IPP /\ PRINTER_NAME = EmptyStr /\ PRINTER_URI = EmptyStr
    \/ \E c \in CallsFor(j) :
          \/ c.outcome.kind = "exit"
          \/ c.outcome.exc \in {"FileNotFoundError", "TimeoutExpired"}

\* C5: a valid submission returns the id of the job it created whatever the
\* dispatch outcome; no dispatch error reaches the caller, and a failure is
\* recorded on the job alone (status failed, error set).
C5_SubmitReturnsJobId ==
    \A r \in Requests :
        req[r].pc = "done" /\ Owned(r) =>
            /\ req[r].resp = Some(Accepted(req[r].job_id))
            /\ req[r].job_id \in DOMAIN jobs
            /\ DispatchFailed(req[r].job_id) =>
                  /\ jobs[req[r].job_id].status = "failed"
                  /\ Truthy(jobs[req[r].job_id].error)

C5_Witness ==
    \E r \in Requests :
        /\ req[r].pc = "done" /\ Owned(r)
        /\ \E c \in CallsFor(req[r].job_id) : c.outcome.exc = "TimeoutExpired"
        /\ req[r].resp = Some(Accepted(req[r].job_id))
        /\ jobs[req[r].job_id].status = "failed"

\* C6: a valid submit creates exactly one job, owned by the submitter, first
\* stored as queued with no error and no backend job id, committed and visible
\* to its owner before any dispatch step for it runs; the id returned refers
\* to an existing job.
C6_JobCreatedQueued ==
    /\ Cardinality(DOMAIN jobs) = Cardinality({r \in Requests : Owned(r)})
    /\ \A r, q \in Requests : Owned(r) /\ Owned(q) /\ r /= q => req[r].job_id /= req[q].job_id
    /\ \A r \in Requests :
          Owned(r) =>
              /\ req[r].job_id \in DOMAIN jobs
              /\ jobs[req[r].job_id].user_id = req[r].user_id
              /\ hist[req[r].job_id][1] = "queued"
              /\ jobs[req[r].job_id].status = "queued" =>
                    jobs[req[r].job_id].error = None /\ jobs[req[r].job_id].ipp_job_id = None
              /\ job_status(TokenOf(req[r].user_id), req[r].job_id)
                    = JobView(jobs[req[r].job_id])
              /\ req[r].pc = "created" => jobs[req[r].job_id].status = "queued"
    /\ \A j \in JobIds : CallsFor(j) /= {} => j \in DOMAIN jobs
    /\ \A t \in 1 .. Len(threads) : threads[t].job_id \in DOMAIN jobs

\* the job is committed and read by its owner while its dispatch has not started
C6_Witness ==
    \E r \in Requests :
        /\ req[r].pc = "created"
        /\ view /= None
        /\ view[1].caller = TokenOf(req[r].user_id)
        /\ view[1].job_id = req[r].job_id
        /\ view[1].resp = JobView(jobs[req[r].job_id])
        /\ view[1].resp.body.status = "queued"

\* C7: with the Simulated Backend every submitted job is queued or already
\* completed when submit returns, and with the request and background
\* threads scheduled fairly it ends completed with no error, for good.
C7_SimulatedCompletes ==
    /\ [](\A r \in Requests :
            ~ENABLE_IPP /\ req[r].pc = "done" /\ Owned(r) =>
                jobs[req[r].job_id].status \in {"queued", "completed"})
    /\ \A j \in JobIds :
          [](~ENABLE_IPP /\ j \in DOMAIN jobs =>
                <>[](/\ j \in DOMAIN jobs
                     /\ jobs[j].status = "completed"
                     /\ jobs[j].error = None))

C7_Witness ==
    /\ ~ENABLE_IPP
    /\ \E r \in Requests :
          /\ req[r].pc = "done" /\ Owned(r)
          /\ hist[req[r].job_id] = <<"queued", "completed">>
          /\ jobs[req[r].job_id].error = None
    /\ \E t \in 1 .. Len(threads) : threads[t].pc = "finished"

\* C8: with the Protocol Backend and neither printer name nor URI configured,
\* submit still returns the job id, the external client is never invoked, and
\* the job goes queued -> failed with the configuration error and no backend
\* job id.
C8_NoTargetFails ==
    ENABLE_IPP /\ PRINTER_NAME = EmptyStr /\ PRINTER_URI = EmptyStr =>
        /\ \A j \in JobIds : CallsFor(j) = {}
        /\ \A r \in Requests :
              Owned(r) =>
                  IF req[r].pc = "done"
                  THEN /\ req[r].resp = Some(Accepted(req[r].job_id))
                       /\ hist[req[r].job_id] = <<"queued", "failed">>
                       /\ jobs[req[r].job_id].error = Some(NoPrinterMsg)
                       /\ Truthy(jobs[req[r].job_id].error)
                       /\ jobs[req[r].job_id].ipp_job_id = None
                  ELSE hist[req[r].job_id] = <<"queued">>

C8_Witness ==
    /\ ENABLE_IPP /\ PRINTER_NAME = EmptyStr /\ PRINTER_URI = EmptyStr
    /\ \E r \in Requests :
          /\ req[r].pc = "done" /\ Owned(r)
          /\ jobs[req[r].job_id].status = "failed"
          /\ jobs[req[r].job_id].error = Some(NoPrinterMsg)

\* C9: with a target configured, a non-zero exit of the external client makes
\* the job go queued -> failed, whatever the captured output; error contains
\* that output and the backend job id stays empty.
C9_NonZeroExitFails ==
    \A r \in Requests :
        Owned(r) =>
            \A c \in CallsFor(req[r].job_id) :
                c.outcome.kind = "exit" =>
                    /\ jobs[req[r].job_id].ipp_job_id = None
                    /\ IF req[r].pc = "done"
                       THEN /\ hist[req[r].job_id] = <<"queued", "failed">>
                            /\ jobs[req[r].job_id].error /= None
                            /\ Contains(jobs[req[r].job_id].error[1], c.outcome.text)
                       ELSE hist[req[r].job_id] = <<"queued">>

\* one client failed without output, another with output holding a job-id-like token
C9_Witness ==
    \E r, q \in Requests :
        /\ req[r].pc = "done" /\ req[q].pc = "done"
        /\ \E c \in CallsFor(req[r].job_id) :
              c.outcome.kind = "exit" /\ c.outcome.text = EmptyStr
        /\ \E c \in CallsFor(req[q].job_id) :
              c.outcome.kind = "exit" /\ FindJobId(Split(c.outcome.text)) /= None
        /\ jobs[req[r].job_id].status = "failed"
        /\ jobs[req[q].job_id].status = "failed"

\* C10: with a target configured, any fault of the client invocation other
\* than a non-zero exit makes the job go queued -> failed with error equal to
\* the fault's message, whatever the message; and under the Protocol Backend
\* no job is queued once its submit has returned.
C10_FaultFails ==
    \A r \in Requests :
        req[r].pc = "done" /\ Owned(r) =>
            /\ ENABLE_IPP => jobs[req[r].job_id].status /= "queued"
            /\ \A c \in CallsFor(req[r].job_id) :
                  c.outcome.kind = "fault" =>
                      /\ hist[req[r].job_id] = <<"queued", "failed">>
                      /\ jobs[req[r].job_id].error = Some(c.outcome.text)

\* C11: a job's backend job id is non-empty only if the job went through the
\* Protocol Backend and the client accepted it (status printing); it is empty
\* for every queued, completed or failed job and under the Simulated Backend.
C11_BackendIdOnlyWhenAccepted ==
    \A j \in DOMAIN jobs :
        /\ Truthy(jobs[j].ipp_job_id) =>
              /\ ENABLE_IPP
              /\ jobs[j].status = "printing"
              /\ \E c \in CallsFor(j) : c.outcome.kind = "ok"
        /\ jobs[j].status \in {"queued", "completed", "failed"} => jobs[j].ipp_job_id = None
        /\ ~ENABLE_IPP => jobs[j].ipp_job_id = None

\* one job accepted with a backend job id, another failed without one
C11_Witness ==
    \E j, k \in DOMAIN jobs :
        /\ jobs[j].status = "printing" /\ Truthy(jobs[j].ipp_job_id)
        /\ jobs[k].status = "failed" /\ jobs[k].ipp_job_id = None

\* request r carries no valid token, or no file with a non-empty filename
Invalid(r) ==
    /\ req[r].auth /= None
    /\ IF auth_required(req[r].auth[1]) /= None THEN TRUE
       ELSE IF req[r].files = None THEN FALSE
       ELSE ~HasFilename(req[r].files[1])

\* C12: a submit that fails authentication or validation is answered with an
\* error before any job is created: the step that rejects it leaves the job
\* table unchanged and starts no dispatch and no background thread, and no
\* later step dispatches for it.
C12_RejectedBeforeCreation ==
    /\ [](\A r \in Requests :
            Invalid(r) =>
                /\ req[r].pc = "done"
                /\ req[r].job_id = 0
                /\ req[r].resp \in {Some(Unauthorized), Some(InvalidToken),
                                    Some(FileRequired), Some(EmptyFilename)}
                /\ lpCalls[r] = << >>)
    /\ [][\A r \in Requests :
            req[r].pc = "start" /\ Invalid(r)' =>
                jobs' = jobs /\ hist' = hist /\ threads' = threads /\ lpCalls' = lpCalls]_vars

\* a bad token and an empty filename were both rejected and no job exists
C12_Witness ==
    /\ \E r, q \in Requests :
          /\ req[r].pc = "done" /\ req[r].resp = Some(InvalidToken)
          /\ req[q].pc = "done" /\ req[q].resp = Some(EmptyFilename)
    /\ DOMAIN jobs = {}
    /\ threads = << >>

\* C13: terminalization is idempotent: a completion signal applied to a job
\* that has already left queued (a duplicate or racing signal) is a no-op
\* that leaves status, error, backend job id and updated_at unchanged.
C13_DuplicateSignalNoOp ==
    [][\A t \in SignalThreads :
          (/\ t <= Len(threads)
           /\ threads[t].pc = "loaded"
           /\ threads'[t].pc = "finished"
           /\ threads[t].job_id \in DOMAIN jobs
           /\ jobs[threads[t].job_id].status /= "queued")
          => jobs'[threads[t].job_id] = jobs[threads[t].job_id]]_vars

\* the qualifying tokens of a client output, by position
Hits(text) == {i \in 1 .. Len(Split(text)) : Qualifies(Split(text)[i])}
\* the identifier a request holds and its job stores agree with token i of the
\* output, or with no token at all when i = 0
Extracted(r, c, i) ==
    LET id == IF i = 0 THEN None ELSE Some(Split(c.outcome.text)[i])
    IN  /\ req[r].pc = "loaded" => req[r].ipp_id = id
        /\ req[r].pc = "done" /\ c.job_id \in DOMAIN jobs =>
              jobs[c.job_id].ipp_job_id = (IF i = 0 THEN Some(EmptyStr) ELSE id)

\* C14 as stated: the identifier taken from a successful client's output is
\* the LAST whitespace-delimited token that contains "-" and has an all-digit
\* part after its final "-".
C14_LastQualifyingToken ==
    \A r \in Requests : \A n \in 1 .. Len(lpCalls[r]) :
        LET c == lpCalls[r][n]
        IN  c.outcome.kind = "ok" =>
               IF Hits(c.outcome.text) = {} THEN Extracted(r, c, 0)
               ELSE \E i \in Hits(c.outcome.text) :
                      /\ \A k \in Hits(c.outcome.text) : k <= i
                      /\ Extracted(r, c, i)

\* C14 amended: the identifier taken from a successful client's output is the
\* FIRST whitespace-delimited token that contains "-" and has an all-digit
\* part after its final "-"; with no such token there is no identifier.
C14_FirstQualifyingToken ==
    \A r \in Requests : \A n \in 1 .. Len(lpCalls[r]) :
        LET c == lpCalls[r][n]
        IN  c.outcome.kind = "ok" =>
               IF Hits(c.outcome.text) = {} THEN Extracted(r, c, 0)
               ELSE \E i \in Hits(c.outcome.text) :
                      /\ \A k \in Hits(c.outcome.text) : i <= k
                      /\ Extracted(r, c, i)

\* a client printed two different qualifying tokens and the job stored the first
C14_Witness ==
    \E r \in Requests : \E n \in 1 .. Len(lpCalls[r]) :
        LET c == lpCalls[r][n]
            parts == Split(c.outcome.text)
        IN  /\ c.outcome.kind = "ok"
            /\ Len(parts) = 2 /\ parts[1] /= parts[2]
            /\ Qualifies(parts[1]) /\ Qualifies(parts[2])
            /\ req[r].pc = "done"
            /\ jobs[c.job_id].ipp_job_id = Some(parts[1])

\* C15: with the Protocol Backend and a target configured, a client that exits
\* successfully takes the job queued -> printing with empty error, whether or
\* not an identifier could be extracted: the backend job id is a qualifying
\* token of the output if there is one, and empty otherwise.
C15_SuccessMeansPrinting ==
    \A r \in Requests : \A n \in 1 .. Len(lpCalls[r]) :
        LET c == lpCalls[r][n]
        IN  c.outcome.kind = "ok" /\ req[r].pc = "done" =>
               /\ req[r].resp = Some(Accepted(c.job_id))
               /\ hist[c.job_id] = <<"queued", "printing">>
               /\ jobs[c.job_id].status = "printing"
               /\ jobs[c.job_id].error = None
               /\ IF Hits(c.outcome.text) = {}
                  THEN jobs[c.job_id].ipp_job_id = Some(EmptyStr)
                  ELSE /\ Truthy(jobs[c.job_id].ipp_job_id)
                       /\ \E i \in Hits(c.outcome.text) :
                            jobs[c.job_id].ipp_job_id = Some(Split(c.outcome.text)[i])

\* two successful runs are stored: one printed an identifier, the other none
C15_Witness ==
    \E j, k \in DOMAIN jobs :
        /\ jobs[j].status = "printing" /\ Truthy(jobs[j].ipp_job_id)
        /\ jobs[k].status = "printing" /\ jobs[k].ipp_job_id = Some(EmptyStr)
        /\ \E c \in CallsFor(k) : c.outcome.kind = "ok" /\ Hits(c.outcome.text) = {}
        /\ \E c \in CallsFor(j) : c.outcome.kind = "ok" /\ Hits(c.outcome.text) /= {}

\* record b is whole: as it is before its transition or after it, never a mix
Complete(b) ==
    /\ b.status = "queued" => b.error = None /\ b.ipp_job_id = None
    /\ b.status = "failed" => Truthy(b.error) /\ b.ipp_job_id = None
    /\ b.status = "printing" => b.error = None /\ b.ipp_job_id /= None
    /\ b.status = "completed" => b.error = None /\ b.ipp_job_id = None

\* C16: each transition reaches the store as one per-job update made after
\* the external call has returned: a status read sees the whole record as it
\* was before the transition or the whole record after it, never a mix, and
\* while the external client runs the job reads as queued and the request
\* holds no session on the store.
C16_AtomicUpdate ==
    /\ \A j \in DOMAIN jobs : Complete(jobs[j])
    /\ view /= None /\ view[1].resp.code = 200 =>
          LET b == view[1].resp.body
          IN  /\ Complete(b)
              /\ b.id \in DOMAIN jobs
              /\ \/ view[1].resp = JobView(jobs[b.id])
                 \/ /\ b.status = "queued"
                    /\ jobs[b.id].status /= "queued"
                    /\ b = [JobView(jobs[b.id]).body EXCEPT
                               !.status = "queued", !.error = None, !.ipp_job_id = None,
                               !.updated_at = b.updated_at]
    /\ \A r \in Requests :
          /\ req[r].pc = "created" =>
                /\ req[r].job = None
                /\ jobs[req[r].job_id].status = "queued"
          /\ req[r].pc = "loaded" => jobs[req[r].job_id].status = "queued"

\* a read made while a request waits on the client returned the queued record,
\* and the job has failed since
C16_Witness ==
    /\ view /= None
    /\ view[1].resp.code = 200
    /\ view[1].resp.body.status = "queued"
    /\ jobs[view[1].resp.body.id].status = "failed"
    /\ \E r \in Requests : req[r].pc = "created" /\ ENABLE_IPP

\* the invocations of the external client made for job j, by request and position
Invocations(j) ==
    UNION {{<<r, n>> : n \in {m \in 1 .. Len(lpCalls[r]) : lpCalls[r][m].job_id = j}} :
              r \in Requests}
\* the background completion threads started for job j
ThreadsOf(j) == {t \in 1 .. Len(threads) : threads[t].job_id = j}

\* C17: every job gets exactly one dispatch attempt: under the Protocol
\* Backend the external client is invoked at most once for it, under the
\* Simulated Backend exactly one completion thread is started for it, and no
\* job is dispatched both ways, however the submissions interleave.
C17_OneDispatchPerJob ==
    \A j \in DOMAIN jobs :
        /\ Cardinality(Invocations(j)) + Cardinality(ThreadsOf(j)) <= 1
        /\ ENABLE_IPP => ThreadsOf(j) = {}
        /\ ~ENABLE_IPP => Invocations(j) = {}
        /\ \A r \in Requests :
              req[r].job_id = j /\ req[r].pc = "done" =>
                 /\ ~ENABLE_IPP => Cardinality(ThreadsOf(j)) = 1
                 /\ ENABLE_IPP /\ LpCommand(EmptyStr) /= None =>
                       Cardinality(Invocations(j)) = 1

\* two submissions ran side by side, the second created before the first was
\* stored, and the client was invoked once for each job
C17_Witness ==
    /\ Cardinality(DOMAIN jobs) = 2
    /\ \E r, q \in Requests :
          /\ req[r].pc = "done" /\ req[q].pc = "loaded"
          /\ hist[req[r].job_id] = <<"queued", "printing">>
    /\ \A j \in DOMAIN jobs : Cardinality(Invocations(j)) = 1 /\ ThreadsOf(j) = {}

\* the jobs whose record the step changes
Changed == {j \in DOMAIN jobs : jobs'[j] /= jobs[j]}
\* job j is being transitioned: a request or a completion thread has loaded it
\* and is about to commit
InTransition(j) ==
    \/ \E r \in Requests : req[r].pc = "loaded" /\ req[r].job_id = j
    \/ \E t \in 1 .. Len(threads) : threads[t].pc = "loaded" /\ threads[t].job_id = j

\* C18: a transition changes only status, error, backend job id and
\* updated_at of the one job being transitioned: id, owner, filename and
\* created_at never change after creation, every other job is left as it was,
\* a status read changes nothing, and no job is ever deleted (the set of ids
\* only grows and ids are unique).
C18_FrameOfTransitions ==
    /\ [](\A j \in DOMAIN jobs : jobs[j].id = j)
    /\ [][/\ DOMAIN jobs \subseteq DOMAIN jobs'
          /\ \A j \in DOMAIN jobs :
                /\ jobs'[j].id = jobs[j].id
                /\ jobs'[j].user_id = jobs[j].user_id
                /\ jobs'[j].filename = jobs[j].filename
                /\ jobs'[j].created_at = jobs[j].created_at
          /\ Cardinality(Changed) <= 1
          /\ \A j \in Changed : InTransition(j) /\ DOMAIN jobs' = DOMAIN jobs
          /\ view' /= view =>
                /\ jobs' = jobs /\ hist' = hist /\ req' = req
                /\ threads' = threads /\ lpCalls' = lpCalls /\ now' = now]_vars

\* one job has been transitioned while another, created before the
\* transition, is still as it was inserted, and a status read has been served
C18_Witness ==
    /\ view /= None
    /\ \E j, k \in DOMAIN jobs :
          /\ Len(hist[j]) = 2
          /\ jobs[j].updated_at > jobs[k].updated_at
          /\ jobs[k].status = "queued"

\* every step that changes the status of a job sets its updated_at to the
\* current time, not earlier than the value it had, and no other step
\* touches updated_at
RefreshedByTransitionsOnly ==
    \A j \in DOMAIN jobs :
        /\ jobs'[j].status /= jobs[j].status =>
              /\ jobs'[j].updated_at = now'
              /\ jobs'[j].updated_at >= jobs[j].updated_at
        /\ jobs'[j].status = jobs[j].status => jobs'[j].updated_at = jobs[j].updated_at

\* C19 as stated: updated_at equals created_at at creation, is refreshed (set
\* to the current time, never earlier than before) by every transition of the
\* job and by nothing else, so updated_at >= created_at always and updated_at
\* changes exactly when status changes.
C19_UpdatedAtEqualsCreatedAt ==
    /\ [](\A j \in DOMAIN jobs : jobs[j].updated_at >= jobs[j].created_at)
    /\ [][/\ \A j \in DOMAIN jobs' \ DOMAIN jobs :
                jobs'[j].updated_at = jobs'[j].created_at
          /\ RefreshedByTransitionsOnly]_vars

\* C19 amended: updated_at is set at creation to a reading of the clock taken
\* at or after the one stored in created_at, is refreshed (set to the current
\* time, never earlier than before) by every transition of the job and by
\* nothing else, so updated_at >= created_at always and updated_at changes
\* exactly when status changes.
C19_UpdatedAtNotBeforeCreatedAt ==
    /\ [](\A j \in DOMAIN jobs : jobs[j].updated_at >= jobs[j].created_at)
    /\ [][/\ \A j \in DOMAIN jobs' \ DOMAIN jobs :
                /\ jobs'[j].updated_at >= jobs'[j].created_at
                /\ jobs'[j].updated_at = now'
          /\ RefreshedByTransitionsOnly]_vars

\* a job inserted with updated_at after created_at is still queued, and
\* another, inserted with both equal, has been transitioned at a later time
C19_Witness ==
    \E j, k \in DOMAIN jobs :
        /\ Len(hist[k]) = 1 /\ jobs[k].created_at < jobs[k].updated_at
        /\ Len(hist[j]) = 2 /\ jobs[j].created_at < jobs[j].updated_at
        /\ j < k /\ jobs[j].updated_at = now

\* the statuses job j has had
StatusesOf(j) == {hist[j][i] : i \in 1 .. Len(hist[j])}

\* C20: the backend chosen at start partitions the statuses: with the
\* Simulated Backend no job is ever printing or failed and the external client
\* is never invoked; with the Protocol Backend no job is ever completed and no
\* completion thread is ever started.
C20_BackendPartitionsStatuses ==
    /\ ~ENABLE_IPP =>
          /\ \A j \in DOMAIN jobs : StatusesOf(j) \subseteq {"queued", "completed"}
          /\ \A r \in Requests : lpCalls[r] = << >>
    /\ ENABLE_IPP =>
          /\ \A j \in DOMAIN jobs : StatusesOf(j) \subseteq {"queued", "printing", "failed"}
          /\ threads = << >>

\* with the Protocol Backend every request has been answered, one job printing
\* and one failed, and no thread was started
C20_Witness ==
    /\ ENABLE_IPP
    /\ \A r \in Requests : req[r].pc = "done" /\ Owned(r)
    /\ \E j, k \in DOMAIN jobs :
          /\ hist[j] = <<"queued", "printing">>
          /\ hist[k] = <<"queued", "failed">>
    /\ threads = << >>

====
